---- MODULE Spec2Model ----
(***************************************************************************)
(* Model of the single-sphere pinhole-camera renderer of                   *)
(* ECE6360/helloworld: the globals of main.cpp, the render pass            *)
(* DrawSquare, the intersector HitSphere, the shader RayColor, the main    *)
(* loop of main() and the display step of display.cpp.                     *)
(*                                                                         *)
(* Arithmetic.  The program computes in double.  The model computes in     *)
(* exact arithmetic: a number is (p + q*sqrt(n))/d with integers p, q, d   *)
(* and a square-free radicand n, kept in a canonical form so that equal    *)
(* values are equal records.  Rounding is not modelled; the one IEEE       *)
(* special value the program can produce, the NaN of 0.0/0.0, is.          *)
(***************************************************************************)
EXTENDS Integers, Sequences, FiniteSets, TLC

(***************************************************************************)
(* Exact numbers                                                           *)
(***************************************************************************)
\* The NaN of IEEE arithmetic, and the indeterminate value of a float that was
\* never written (new float[n] initialises nothing): records with no finite
\* reading, told apart from every number by d <= 0.
NaN == [p |-> 0, q |-> 0, n |-> 0, d |-> 0]

Indeterminate == [p |-> 0, q |-> 0, n |-> 0, d |-> -1]

\* A value outside the model's numbers: a sum or product of two irrationals
\* of different radicands.  It propagates through every operation, and the
\* invariant Representable states that no computation of the program forms it.
Unrepresentable == [p |-> 0, q |-> 0, n |-> 0, d |-> -2]

IsFinite(x) == x.d > 0

\* The result of an operation with an operand that is no finite number.
NonFinite(x, y) ==
    IF x = Unrepresentable \/ y = Unrepresentable THEN Unrepresentable ELSE NaN

Abs(i) == IF i < 0 THEN -i ELSE i

Sgn(i) == IF i < 0 THEN -1 ELSE IF i > 0 THEN 1 ELSE 0

RECURSIVE Gcd(_, _)
Gcd(i, j) == IF j = 0 THEN Abs(i) ELSE Gcd(j, i % Abs(j))

\* The largest k >= from with k*k dividing n, searched upwards (1 if none).
RECURSIVE SquarePart(_, _)
SquarePart(n, k) ==
    IF k * k > n THEN 1
    ELSE IF n % (k * k) = 0 THEN k * SquarePart(n \div (k * k), k)
    ELSE SquarePart(n, k + 1)

\* (p + q*sqrt(n))/d in canonical form: d > 0, n square-free, a rational has
\* q = 0 and n = 1, and gcd(p, q, d) = 1.
Norm(p, q, n, d) ==
    LET k  == IF q = 0 \/ n = 0 THEN 1 ELSE SquarePart(n, 2)
        n1 == IF q = 0 \/ n = 0 THEN 1 ELSE n \div (k * k)
        q1 == IF q = 0 \/ n = 0 THEN 0 ELSE q * k
        p2 == IF n1 = 1 THEN p + q1 ELSE p
        q2 == IF n1 = 1 THEN 0 ELSE q1
        s  == IF d < 0 THEN -1 ELSE 1
        g  == Gcd(Gcd(p2, q2), d)
    IN  [p |-> s * (p2 \div g), q |-> s * (q2 \div g), n |-> n1, d |-> s * (d \div g)]

Rat(p, d) == Norm(p, 0, 1, d)

Num(i) == Rat(i, 1)

IsNaN(x) == x.d = 0

\* Two finite numbers can be combined when they lie in one field Q(sqrt(n)).
SameField(x, y) == x.q = 0 \/ y.q = 0 \/ x.n = y.n

FieldOf(x, y) == IF x.q # 0 THEN x.n ELSE y.n

NumNeg(x) == IF ~IsFinite(x) THEN NonFinite(x, x) ELSE [x EXCEPT !.p = -x.p, !.q = -x.q]

NumAdd(x, y) ==
    IF ~IsFinite(x) \/ ~IsFinite(y) THEN NonFinite(x, y)
    ELSE IF ~SameField(x, y) THEN Unrepresentable
    ELSE Norm(x.p * y.d + y.p * x.d, x.q * y.d + y.q * x.d, FieldOf(x, y), x.d * y.d)

NumSub(x, y) == NumAdd(x, NumNeg(y))

NumMul(x, y) ==
    IF ~IsFinite(x) \/ ~IsFinite(y) THEN NonFinite(x, y)
    ELSE IF ~SameField(x, y) THEN Unrepresentable
    ELSE LET n == FieldOf(x, y)
         IN  Norm(x.p * y.p + x.q * y.q * n, x.p * y.q + x.q * y.p, n, x.d * y.d)

IsZero(x) == IsFinite(x) /\ x.p = 0 /\ x.q = 0

\* IEEE division: a zero divisor gives no trap but a non-finite value.  Every
\* zero divisor of this program divides a zero (a = 0 forces b = h = 0, a zero
\* length forces a zero vector), so the value is the NaN of 0/0.
NumDiv(x, y) ==
    IF ~IsFinite(x) \/ ~IsFinite(y) THEN NonFinite(x, y)
    ELSE IF IsZero(y) THEN NaN
    ELSE IF ~SameField(x, y) THEN Unrepresentable
    ELSE LET n == FieldOf(x, y)
             c == y.p * y.p - y.q * y.q * n
         IN  Norm(y.d * (x.p * y.p - x.q * y.q * n), y.d * (x.q * y.p - x.p * y.q),
                  n, x.d * c)

\* The sign of a finite number.
NumSign(x) ==
    IF x.q = 0 THEN Sgn(x.p)
    ELSE IF x.p = 0 THEN Sgn(x.q)
    ELSE IF Sgn(x.p) = Sgn(x.q) THEN Sgn(x.p)
    ELSE IF x.p * x.p > x.q * x.q * x.n THEN Sgn(x.p) ELSE Sgn(x.q)

\* Comparisons; as in IEEE arithmetic every comparison with a NaN is false.
NumLT(x, y) == IsFinite(x) /\ IsFinite(y) /\ NumSign(NumSub(x, y)) < 0

NumGT(x, y) == NumLT(y, x)

NumLE(x, y) == IsFinite(x) /\ IsFinite(y) /\ NumSign(NumSub(x, y)) <= 0

\* std::sqrt of a rational; a negative argument gives NaN.  The program takes
\* square roots of rationals only (h, and squared lengths).
NumSqrt(x) ==
    IF ~IsFinite(x) THEN NonFinite(x, x)
    ELSE IF x.q # 0 THEN Unrepresentable
    ELSE IF x.p < 0 THEN NaN
    ELSE Norm(0, 1, x.p * x.d, x.d)

(***************************************************************************)
(* vec3 and ray.  vec3.h is not among the sources; its operations are the  *)
(* component-wise ones that main.cpp and ray.h use.                        *)
(***************************************************************************)
vec3(x, y, z) == [x |-> x, y |-> y, z |-> z]

VAdd(u, v) == vec3(NumAdd(u.x, v.x), NumAdd(u.y, v.y), NumAdd(u.z, v.z))

VSub(u, v) == vec3(NumSub(u.x, v.x), NumSub(u.y, v.y), NumSub(u.z, v.z))

VScale(t, v) == vec3(NumMul(t, v.x), NumMul(t, v.y), NumMul(t, v.z))

VDiv(v, t) == vec3(NumDiv(v.x, t), NumDiv(v.y, t), NumDiv(v.z, t))

VAddScalar(v, t) == vec3(NumAdd(v.x, t), NumAdd(v.y, t), NumAdd(v.z, t))

dot(u, v) == NumAdd(NumAdd(NumMul(u.x, v.x), NumMul(u.y, v.y)), NumMul(u.z, v.z))

unit_vector(v) == VDiv(v, NumSqrt(dot(v, v)))

ray(origin, direction) == [m_orig |-> origin, m_dir |-> direction]

\* vec3 at(float t): the narrowing of t to float is a rounding, not modelled.
at(r, t) == VAdd(r.m_orig, VScale(t, r.m_dir))

(***************************************************************************)
(* The intersector and the shader                                          *)
(***************************************************************************)
\* if (h <= 0) return -1.0: the tangent ray reported as a miss.
HitSphereTangentMiss(s, r, rt) ==
    LET p == rt.m_orig
        v == rt.m_dir
        a == dot(v, v)
        b == NumMul(Num(2), dot(v, VSub(s, p)))
        c == NumSub(dot(VSub(s, p), VSub(s, p)), NumMul(r, r))
        h == NumSub(NumMul(b, b), NumMul(NumMul(Num(4), a), c))
    IN  IF NumLE(h, Num(0)) THEN Num(-1)
        ELSE NumDiv(NumSub(b, NumSqrt(h)), NumMul(Num(2), a))

\* return (b + std::sqrt(h)) / (2.0 * a): the far root for the near one.
HitSphereFarRoot(s, r, rt) ==
    LET p == rt.m_orig
        v == rt.m_dir
        a == dot(v, v)
        b == NumMul(Num(2), dot(v, VSub(s, p)))
        c == NumSub(dot(VSub(s, p), VSub(s, p)), NumMul(r, r))
        h == NumSub(NumMul(b, b), NumMul(NumMul(Num(4), a), c))
    IN  IF NumLT(h, Num(0)) THEN Num(-1)
        ELSE NumDiv(NumAdd(b, NumSqrt(h)), NumMul(Num(2), a))

HitSphere(s, r, rt) ==
    LET p == rt.m_orig
        v == rt.m_dir
        a == dot(v, v)
        b == NumMul(Num(2), dot(v, VSub(s, p)))
        c == NumSub(dot(VSub(s, p), VSub(s, p)), NumMul(r, r))
        h == NumSub(NumMul(b, b), NumMul(NumMul(Num(4), a), c))
    IN  IF NumLT(h, Num(0)) THEN Num(-1)
        ELSE NumDiv(NumSub(b, NumSqrt(h)), NumMul(Num(2), a))

\* The sphere RayColor tests against: point3(0, 0, -1), radius 0.5.
SceneCenter == vec3(Num(0), Num(0), Num(-1))

SceneRadius == Rat(1, 2)

\* if (t >= 0.0): a root equal to 0 shaded as a hit.
RayColorHitAtZero(r) ==
    LET t == HitSphere(SceneCenter, SceneRadius, r)
    IN  IF NumLE(Num(0), t)
        THEN LET normal == unit_vector(VSub(at(r, t), SceneCenter))
             IN  VScale(Rat(1, 2), VAddScalar(normal, Num(1)))
        ELSE LET unit_direction == unit_vector(r.m_dir)
                 a == NumMul(Rat(1, 2), NumAdd(unit_direction.y, Num(1)))
                 start_color == vec3(Num(1), Num(1), Num(1))
                 end_color == vec3(Rat(1, 2), Rat(7, 10), Num(1))
             IN  VAdd(VScale(NumSub(Num(1), a), start_color), VScale(a, end_color))

RayColor(r) ==
    LET t == HitSphere(SceneCenter, SceneRadius, r)
    IN  IF NumGT(t, Num(0))
        THEN LET normal == unit_vector(VSub(at(r, t), SceneCenter))
             IN  VScale(Rat(1, 2), VAddScalar(normal, Num(1)))
        ELSE LET unit_direction == unit_vector(r.m_dir)
                 a == NumMul(Rat(1, 2), NumAdd(unit_direction.y, Num(1)))
                 start_color == vec3(Num(1), Num(1), Num(1))
                 end_color == vec3(Rat(1, 2), Rat(7, 10), Num(1))
             IN  VAdd(VScale(NumSub(Num(1), a), start_color), VScale(a, end_color))

(***************************************************************************)
(* Camera parameters (main.cpp, the globals before DummyImage)             *)
(***************************************************************************)
focal_length == Num(1)

viewport_height == Num(2)

viewport_width == Num(2)

camera_center == vec3(Num(0), Num(0), Num(0))

viewport_u == vec3(viewport_width, Num(0), Num(0))

viewport_v == vec3(Num(0), NumNeg(viewport_height), Num(0))

\* The values the static initialisers compute from a resolution.
DeltaU(res) == VDiv(viewport_u, Num(res))

DeltaV(res) == VDiv(viewport_v, Num(res))

viewport_upper_left ==
    VSub(VSub(VSub(camera_center, VDiv(viewport_u, Num(2))), VDiv(viewport_v, Num(2))),
         vec3(Num(0), Num(0), focal_length))

Pixel00(du, dv) == VAdd(viewport_upper_left, VScale(Rat(1, 2), VAdd(du, dv)))

(***************************************************************************)
(* Bounds                                                                  *)
(***************************************************************************)
\* Resolutions range over 1..MaxRes (the program starts at 500).
MaxRes == 4

\* frame_seconds, the measured duration of a frame, in ticks 0..MaxTicks.
MaxTicks == 2

\* Callbacks the environment runs in one execution.
MaxEnvEvents == 3

\* A direct call takes a ray whose origin has coordinates k/2, |k| <= MaxCoord,
\* and whose direction has coordinates k, |k| <= MaxDir.
MaxCoord == 2

MaxDir == 1

\* A row-partitioned pass: resolutions 1..ParRes, workers 1..NWorkers.
ParRes == 3

NWorkers == 2

(***************************************************************************)
(* State                                                                   *)
(***************************************************************************)
VARIABLES
    resolution,        \* int resolution
    output_image_ptr,  \* float* output_image_ptr: the allocation it points to
    frame_seconds,     \* float frame_seconds
    pixel_delta_u,     \* the cached camera quantities
    pixel_delta_v,
    pixel00_loc,
    output_image_tex,  \* the texture of display.cpp and what was uploaded to it
    pc,                \* position of main()
    draw_ret,          \* where the running DrawSquare returns to
    yi, xi,            \* the loop variables of DrawSquare
    writes,            \* per buffer index, the writes of the running pass
    oob,               \* indices outside the buffer the running pass wrote
    rendered,          \* resolution of the last completed pass (0: none)
    env_events,        \* callbacks run so far
    fn_ray, fn_radius, fn_t, fn_color, fn_pc,   \* a direct call of the functions
    par_owner, par_next, par_writers            \* a row-partitioned pass

vars == <<resolution, output_image_ptr, frame_seconds, pixel_delta_u, pixel_delta_v,
          pixel00_loc, output_image_tex, pc, draw_ret, yi, xi, writes, oob, rendered,
          env_events, fn_ray, fn_radius, fn_t, fn_color, fn_pc,
          par_owner, par_next, par_writers>>

fnVars == <<fn_ray, fn_radius, fn_t, fn_color, fn_pc>>

parVars == <<par_owner, par_next, par_writers>>

cameraVars == <<pixel_delta_u, pixel_delta_v, pixel00_loc>>

\* float* p = nullptr, and p = new float[n]: n floats, none initialised.
nullptr == [alloc |-> FALSE, data |-> <<>>]

NewFloats(n) == [alloc |-> TRUE, data |-> [i \in 1..n |-> Indeterminate]]

BufLen(ptr) == Len(ptr.data)

(***************************************************************************)
(* DrawSquare                                                              *)
(***************************************************************************)
\* int idx = yi * resolution + xi * 4: the row stride without its factor 4.
PixelIndexNoStride(y, x, res) == y * res + x * 4

\* int idx = yi * resolution * 4 + xi * 4
PixelIndex(y, x, res) == y * res * 4 + x * 4

\* The ray through pixel (x, y) and its colour, from the cached quantities.
PixelRay(x, y, p00, du, dv) ==
    LET pixel_center == VAdd(VAdd(p00, VScale(Num(x), du)), VScale(Num(y), dv))
        ray_direction == VSub(pixel_center, camera_center)
    IN  ray(camera_center, ray_direction)

PixelColor(x, y, p00, du, dv) == RayColor(PixelRay(x, y, p00, du, dv))

\* The four channel values stored at idx .. idx + 3.
Channels(pixel) == <<pixel.x, pixel.y, pixel.z, Num(1)>>

\* output_image_ptr[idx + k] += ...: a store that accumulates into the buffer.
StorePixelAccumulate(data, idx, pixel) ==
    [i \in 1..Len(data) |->
        IF i - 1 \in idx..(idx + 3)
        THEN IF data[i] = Indeterminate THEN Channels(pixel)[i - idx]
             ELSE NumAdd(data[i], Channels(pixel)[i - idx])
        ELSE data[i]]

\* output_image_ptr[idx + 4] = 1.0f: alpha stored one element too far.
StorePixelAlphaShifted(data, idx, pixel) ==
    [i \in 1..Len(data) |->
        IF i - 1 \in idx..(idx + 2) THEN Channels(pixel)[i - idx]
        ELSE IF i - 1 = idx + 4 THEN Num(1)
        ELSE data[i]]

\* The buffer after the stores at idx .. idx + 3 that fall inside it.
StorePixel(data, idx, pixel) ==
    [i \in 1..Len(data) |->
        IF i - 1 \in idx..(idx + 3) THEN Channels(pixel)[i - idx] ELSE data[i]]

\* The indices of idx .. idx + 3 outside a buffer of len floats.
Outside(idx, len) == {i \in idx..(idx + 3) : i < 0 \/ i >= len}

\* A store outside the allocation is undefined: the build either faults or
\* overwrites memory that is not the buffer's.
StoreOutcomes(outside) == IF outside = {} THEN {"stored"} ELSE {"corrupt", "fault"}

\* DrawSquare(): entry, with yi = 0 and xi = 0, on a buffer of len floats.
EnterDrawSquare(ret, len) ==
    /\ pc' = "draw"
    /\ draw_ret' = ret
    /\ yi' = 0
    /\ xi' = 0
    /\ writes' = [i \in 0..(len - 1) |-> 0]
    /\ oob' = {}

\* One iteration of the inner loop, and the loop control after it.
DrawSquarePixel ==
    /\ pc = "draw"
    /\ yi < resolution
    /\ LET pixel   == PixelColor(xi, yi, pixel00_loc, pixel_delta_u, pixel_delta_v)
           idx     == PixelIndex(yi, xi, resolution)
           outside == Outside(idx, BufLen(output_image_ptr))
       IN  \E outcome \in StoreOutcomes(outside) :
              IF outcome = "fault"
              THEN /\ pc' = "crashed"
                   /\ UNCHANGED <<output_image_ptr, yi, xi, writes, oob>>
              ELSE /\ output_image_ptr' =
                         [output_image_ptr EXCEPT !.data = StorePixel(@, idx, pixel)]
                   /\ writes' = [i \in DOMAIN writes |->
                                    IF i \in idx..(idx + 3) THEN writes[i] + 1 ELSE writes[i]]
                   /\ oob' = oob \cup outside
                   /\ xi' = IF xi + 1 < resolution THEN xi + 1 ELSE 0
                   /\ yi' = IF xi + 1 < resolution THEN yi ELSE yi + 1
                   /\ pc' = pc
    /\ UNCHANGED <<resolution, frame_seconds, cameraVars, output_image_tex, draw_ret,
                   rendered, env_events, fnVars, parVars>>

\* The outer loop ends: DrawSquare returns.
DrawSquareReturn ==
    /\ pc = "draw"
    /\ yi >= resolution
    /\ pc' = draw_ret
    /\ rendered' = resolution
    /\ UNCHANGED <<resolution, output_image_ptr, frame_seconds, cameraVars,
                   output_image_tex, draw_ret, yi, xi, writes, oob, env_events,
                   fnVars, parVars>>

(***************************************************************************)
(* main() and the display step                                             *)
(***************************************************************************)
\* glfwInit, glfwCreateWindow or glewInit fails: main throws.
InitFails ==
    /\ pc = "start"
    /\ pc' = "terminated"
    /\ UNCHANGED <<resolution, output_image_ptr, frame_seconds, cameraVars,
                   output_image_tex, draw_ret, yi, xi, writes, oob, rendered,
                   env_events, fnVars, parVars>>

\* output_image_ptr = new float[...]; DummyImage() commented out and
\* DrawSquare() with it: the loop starts on a buffer nothing has written.
AllocateNoRender ==
    /\ pc = "start"
    /\ output_image_ptr' = NewFloats(resolution * resolution * 4)
    /\ pc' = "loop"
    /\ UNCHANGED <<resolution, frame_seconds, cameraVars, output_image_tex, draw_ret,
                   yi, xi, writes, oob, rendered, env_events, fnVars, parVars>>

\* output_image_ptr = new float[resolution * resolution * 4]; DrawSquare();
Allocate ==
    /\ pc = "start"
    /\ output_image_ptr' = NewFloats(resolution * resolution * 4)
    /\ EnterDrawSquare("loop", resolution * resolution * 4)
    /\ UNCHANGED <<resolution, frame_seconds, cameraVars, output_image_tex, rendered,
                   env_events, fnVars, parVars>>

\* while (!glfwWindowShouldClose(window)): the window may have been closed.
LoopTest ==
    /\ pc = "loop"
    /\ pc' \in {"poll", "teardown"}
    /\ UNCHANGED <<resolution, output_image_ptr, frame_seconds, cameraVars,
                   output_image_tex, draw_ret, yi, xi, writes, oob, rendered,
                   env_events, fnVars, parVars>>

\* glfwPollEvents() returns; glClear.
PollEvents ==
    /\ pc = "poll"
    /\ pc' = "gui"
    /\ UNCHANGED <<resolution, output_image_ptr, frame_seconds, cameraVars,
                   output_image_tex, draw_ret, yi, xi, writes, oob, rendered,
                   env_events, fnVars, parVars>>

\* What glTexImage2D reads: resolution * resolution * 4 floats from the
\* pointer.  A float past the allocation is read as anything.
Uploaded(ptr, res) ==
    [i \in 1..(res * res * 4) |-> IF i <= BufLen(ptr) THEN ptr.data[i] ELSE Indeterminate]

\* A read past the allocation is undefined: it faults or yields anything.
ReadOutcomes(ptr, res) ==
    IF res * res * 4 <= BufLen(ptr) THEN {"read"} ELSE {"garbage", "fault"}

\* ImGuiRender() -> DrawOutputImage() -> UpdateOutputTexture().
ImGuiRender ==
    /\ pc = "gui"
    /\ \E outcome \in ReadOutcomes(output_image_ptr, resolution) :
          IF outcome = "fault"
          THEN pc' = "crashed" /\ UNCHANGED output_image_tex
          ELSE /\ output_image_tex' =
                     [id |-> 1, width |-> resolution, height |-> resolution,
                      data |-> Uploaded(output_image_ptr, resolution)]
               /\ pc' = "swap"
    /\ UNCHANGED <<resolution, output_image_ptr, frame_seconds, cameraVars, draw_ret,
                   yi, xi, writes, oob, rendered, env_events, fnVars, parVars>>

\* glfwSwapBuffers; frame_seconds = duration.count().
EndFrame ==
    /\ pc = "swap"
    /\ frame_seconds' \in 0..MaxTicks
    /\ pc' = "loop"
    /\ UNCHANGED <<resolution, output_image_ptr, cameraVars, output_image_tex, draw_ret,
                   yi, xi, writes, oob, rendered, env_events, fnVars, parVars>>

\* The shutdown calls after the loop; main returns.
Teardown ==
    /\ pc = "teardown"
    /\ pc' = "terminated"
    /\ UNCHANGED <<resolution, output_image_ptr, frame_seconds, cameraVars,
                   output_image_tex, draw_ret, yi, xi, writes, oob, rendered,
                   env_events, fnVars, parVars>>

\* The variables of the other specifications, at rest.
FnIdle ==
    /\ fn_ray = ray(camera_center, camera_center)
    /\ fn_radius = Num(0)
    /\ fn_t = Num(0)
    /\ fn_color = camera_center
    /\ fn_pc = "idle"

ParIdle ==
    /\ par_owner = <<>>
    /\ par_next = <<>>
    /\ par_writers = <<>>

\* The state after static initialisation, for a start resolution in 1..MaxRes.
ProgramInit ==
    /\ resolution \in 1..MaxRes
    /\ output_image_ptr = nullptr
    /\ frame_seconds = 0
    /\ pixel_delta_u = DeltaU(resolution)
    /\ pixel_delta_v = DeltaV(resolution)
    /\ pixel00_loc = Pixel00(pixel_delta_u, pixel_delta_v)
    /\ output_image_tex = [id |-> 0, width |-> 0, height |-> 0, data |-> <<>>]
    /\ pc = "start"
    /\ draw_ret = "loop"
    /\ yi = 0
    /\ xi = 0
    /\ writes = <<>>
    /\ oob = {}
    /\ rendered = 0
    /\ env_events = 0

Init == ProgramInit /\ FnIdle /\ ParIdle

Next ==
    \/ InitFails
    \/ Allocate
    \/ DrawSquarePixel
    \/ DrawSquareReturn
    \/ LoopTest
    \/ PollEvents
    \/ ImGuiRender
    \/ EndFrame
    \/ Teardown

\* The program as written: nothing changes resolution after start-up.
Spec == Init /\ [][Next]_vars

(***************************************************************************)
(* The environment.  resolution and output_image_ptr are extern globals    *)
(* (helloworld.h) that main.cpp invites a user-interface element to        *)
(* change; such an element runs as a callback inside glfwPollEvents().     *)
(* Each callback below is one statement such an element executes.          *)
(***************************************************************************)
\* resolution = r;
SetResolution ==
    /\ pc = "poll"
    /\ env_events < MaxEnvEvents
    /\ \E r \in (1..MaxRes) \ {resolution} : resolution' = r
    /\ env_events' = env_events + 1
    /\ UNCHANGED <<output_image_ptr, frame_seconds, cameraVars, output_image_tex, pc,
                   draw_ret, yi, xi, writes, oob, rendered, fnVars, parVars>>

\* output_image_ptr = new float[resolution * resolution * 4];
Reallocate ==
    /\ pc = "poll"
    /\ env_events < MaxEnvEvents
    /\ output_image_ptr' = NewFloats(resolution * resolution * 4)
    /\ rendered' = 0
    /\ env_events' = env_events + 1
    /\ UNCHANGED <<resolution, frame_seconds, cameraVars, output_image_tex, pc,
                   draw_ret, yi, xi, writes, oob, fnVars, parVars>>

\* DrawSquare();
Redraw ==
    /\ pc = "poll"
    /\ env_events < MaxEnvEvents
    /\ EnterDrawSquare("poll", BufLen(output_image_ptr))
    /\ env_events' = env_events + 1
    /\ UNCHANGED <<resolution, output_image_ptr, frame_seconds, cameraVars,
                   output_image_tex, rendered, fnVars, parVars>>

EnvNext ==
    \/ Next
    \/ SetResolution
    \/ Reallocate
    \/ Redraw

\* The program with an environment that changes resolution, reallocates
\* the buffer and re-renders.
EnvSpec == Init /\ [][EnvNext]_vars

(***************************************************************************)
(* Direct calls of HitSphere and RayColor on a ray drawn from a bounded    *)
(* set.  The sphere's centre stays at the scene's: moving the centre is    *)
(* moving the ray's origin the other way.                                  *)
(***************************************************************************)
ProgramIdle ==
    /\ resolution = 1
    /\ output_image_ptr = nullptr
    /\ frame_seconds = 0
    /\ pixel_delta_u = DeltaU(1)
    /\ pixel_delta_v = DeltaV(1)
    /\ pixel00_loc = Pixel00(pixel_delta_u, pixel_delta_v)
    /\ output_image_tex = [id |-> 0, width |-> 0, height |-> 0, data |-> <<>>]
    /\ pc = "idle"
    /\ draw_ret = "loop"
    /\ yi = 0
    /\ xi = 0
    /\ writes = <<>>
    /\ oob = {}
    /\ rendered = 0
    /\ env_events = 0

Halves == {Rat(k, 2) : k \in (-MaxCoord)..MaxCoord}

\* The scene is mirror-symmetric in x (the sphere's centre has x = 0 and the
\* sky gradient reads y only): origins with x >= 0 stand for all.
HalvesFromZero == {Rat(k, 2) : k \in 0..MaxCoord}

\* The radii of the spheres HitSphere is called with: the scene's, and 1.
Radii == {Rat(1, 2), Num(1)}

Wholes == {Num(k) : k \in (-MaxDir)..MaxDir}

FnInit ==
    /\ ProgramIdle
    /\ ParIdle
    /\ \E ox \in HalvesFromZero, oy \in Halves, oz \in Halves, dx \in Wholes, dy \in Wholes,
          dz \in Wholes : fn_ray = ray(vec3(ox, oy, oz), vec3(dx, dy, dz))
    /\ fn_radius \in Radii
    /\ fn_t = Num(0)
    /\ fn_color = camera_center
    /\ fn_pc = "input"

\* t = HitSphere(point3(0, 0, -1), radius, r)
CallHitSphere ==
    /\ fn_pc = "input"
    /\ fn_t' = HitSphere(SceneCenter, fn_radius, fn_ray)
    /\ fn_pc' = "intersected"
    /\ UNCHANGED <<resolution, output_image_ptr, frame_seconds, cameraVars,
                   output_image_tex, pc, draw_ret, yi, xi, writes, oob, rendered,
                   env_events, fn_ray, fn_radius, fn_color, parVars>>

\* pixel = RayColor(r)
CallRayColor ==
    /\ fn_pc = "intersected"
    /\ fn_color' = RayColor(fn_ray)
    /\ fn_pc' = "shaded"
    /\ UNCHANGED <<resolution, output_image_ptr, frame_seconds, cameraVars,
                   output_image_tex, pc, draw_ret, yi, xi, writes, oob, rendered,
                   env_events, fn_ray, fn_radius, fn_t, parVars>>

FnNext == CallHitSphere \/ CallRayColor

FnSpec == FnInit /\ [][FnNext]_vars

(***************************************************************************)
(* The pass of DrawSquare with its rows divided among workers, each        *)
(* running the loop body for the pixels of its rows, in any interleaving.  *)
(***************************************************************************)
Workers == 1..NWorkers

\* The rows of worker w in increasing order.
RECURSIVE RowsFrom(_, _, _, _)
RowsFrom(owner, w, y, res) ==
    IF y >= res THEN <<>>
    ELSE IF owner[y] = w THEN <<y>> \o RowsFrom(owner, w, y + 1, res)
    ELSE RowsFrom(owner, w, y + 1, res)

\* The whole pass as DrawSquare runs it alone: pixels k = yi * res + xi in
\* increasing order from pixel k on.
RECURSIVE SequentialPass(_, _, _, _, _, _)
SequentialPass(data, k, res, p00, du, dv) ==
    IF k >= res * res THEN data
    ELSE LET x == k % res
             y == k \div res
         IN  SequentialPass(StorePixel(data, PixelIndex(y, x, res),
                                       PixelColor(x, y, p00, du, dv)),
                            k + 1, res, p00, du, dv)

ParInit ==
    /\ FnIdle
    /\ resolution \in 1..ParRes
    /\ output_image_ptr = NewFloats(resolution * resolution * 4)
    /\ frame_seconds = 0
    /\ pixel_delta_u = DeltaU(resolution)
    /\ pixel_delta_v = DeltaV(resolution)
    /\ pixel00_loc = Pixel00(pixel_delta_u, pixel_delta_v)
    /\ output_image_tex = [id |-> 0, width |-> 0, height |-> 0, data |-> <<>>]
    /\ pc = "parallel"
    /\ draw_ret = "loop"
    /\ yi = 0
    /\ xi = 0
    /\ writes = <<>>
    /\ oob = {}
    /\ rendered = 0
    /\ env_events = 0
    /\ par_owner \in [0..(resolution - 1) -> Workers]
    /\ par_next = [w \in Workers |-> 0]
    /\ par_writers = [i \in 0..(resolution * resolution * 4 - 1) |-> {}]

\* Worker w runs the loop body for its next pixel.
WorkerPixel(w) ==
    /\ pc = "parallel"
    /\ LET rows == RowsFrom(par_owner, w, 0, resolution)
           k    == par_next[w]
       IN  /\ k < Len(rows) * resolution
           /\ LET y     == rows[(k \div resolution) + 1]
                  x     == k % resolution
                  pixel == PixelColor(x, y, pixel00_loc, pixel_delta_u, pixel_delta_v)
                  idx   == PixelIndex(y, x, resolution)
              IN  /\ output_image_ptr' =
                        [output_image_ptr EXCEPT !.data = StorePixel(@, idx, pixel)]
                  /\ par_writers' = [i \in DOMAIN par_writers |->
                                        IF i \in idx..(idx + 3)
                                        THEN par_writers[i] \cup {w} ELSE par_writers[i]]
           /\ par_next' = [par_next EXCEPT ![w] = k + 1]
    /\ UNCHANGED <<resolution, frame_seconds, cameraVars, output_image_tex, pc,
                   draw_ret, yi, xi, writes, oob, rendered, env_events, fnVars,
                   par_owner>>

ParNext == \E w \in Workers : WorkerPixel(w)

ParSpec == ParInit /\ [][ParNext]_vars

(***************************************************************************)
(* Properties                                                              *)
(***************************************************************************)
RepresentableVec(v) ==
    v.x # Unrepresentable /\ v.y # Unrepresentable /\ v.z # Unrepresentable

\* Every number the program has computed is one the model represents.
Representable ==
    /\ \A i \in 1..BufLen(output_image_ptr) : output_image_ptr.data[i] # Unrepresentable
    /\ fn_t # Unrepresentable
    /\ RepresentableVec(fn_color)

\* The camera ray of pixel (x, y) at resolution res, from the parameters
\* themselves rather than from the cached quantities.
CurrentDeltaU(res) == VDiv(viewport_u, Num(res))

CurrentDeltaV(res) == VDiv(viewport_v, Num(res))

CurrentPixel00(res) ==
    VAdd(VSub(VSub(VSub(camera_center, VDiv(viewport_u, Num(2))),
                   VDiv(viewport_v, Num(2))),
              vec3(Num(0), Num(0), focal_length)),
         VScale(Rat(1, 2), VAdd(CurrentDeltaU(res), CurrentDeltaV(res))))

CameraRay(x, y, res) ==
    ray(camera_center,
        VSub(VAdd(VAdd(CurrentPixel00(res), VScale(Num(x), CurrentDeltaU(res))),
                  VScale(Num(y), CurrentDeltaV(res))),
             camera_center))

\* Pixels written so far by the running (or the completed) pass, row-major.
PixelsDone == yi * resolution + xi

\* C1: with a buffer of resolution * resolution * 4 floats, a pass of
\* DrawSquare writes no index outside [0, R*R*4), has written each index of
\* the pixels it has visited exactly once and no other index, visits the
\* pixels with y outer and x inner, and leaves at (y*R + x)*4 .. +3 the red,
\* green and blue of the shaded camera ray of (x, y) followed by alpha 1.
C1_RenderPass ==
    output_image_ptr.alloc =>
       /\ BufLen(output_image_ptr) = resolution * resolution * 4
       /\ oob = {}
       /\ DOMAIN writes = 0..(resolution * resolution * 4 - 1)
       /\ \A i \in DOMAIN writes : writes[i] = IF i < PixelsDone * 4 THEN 1 ELSE 0
       /\ \A y \in 0..(resolution - 1), x \in 0..(resolution - 1) :
             y * resolution + x < PixelsDone =>
                LET c   == RayColor(CameraRay(x, y, resolution))
                    off == (y * resolution + x) * 4
                IN  /\ output_image_ptr.data[off + 1] = c.x
                    /\ output_image_ptr.data[off + 2] = c.y
                    /\ output_image_ptr.data[off + 3] = c.z
                    /\ output_image_ptr.data[off + 4] = Num(1)
       /\ (pc # "draw" => PixelsDone = resolution * resolution)

\* A completed pass over at least four pixels.
C1_Witness ==
    /\ pc = "loop"
    /\ resolution >= 2
    /\ rendered = resolution
    /\ \A i \in DOMAIN writes : writes[i] = 1

\* C2: a pass on a buffer whose length is not resolution * resolution * 4
\* writes nothing, inside the buffer or outside it.
C2_SizeChecked ==
    /\ oob = {}
    /\ (pc = "draw" /\ BufLen(output_image_ptr) # resolution * resolution * 4) =>
          \A i \in DOMAIN writes : writes[i] = 0

\* C3: while a pass runs, the cached camera quantities are the ones derived
\* from the current resolution.
C3_DerivedCurrent ==
    pc = "draw" =>
       /\ pixel_delta_u = CurrentDeltaU(resolution)
       /\ pixel_delta_v = CurrentDeltaV(resolution)
       /\ pixel00_loc = CurrentPixel00(resolution)

\* C4: the display step runs only on an allocated buffer that a completed
\* pass over all resolution * resolution pixels has written, and it changes
\* neither the buffer, nor the pointer, nor resolution.
C4_DisplayAfterRender ==
    /\ [](pc = "gui" =>
            /\ output_image_ptr.alloc
            /\ rendered = resolution
            /\ BufLen(output_image_ptr) = resolution * resolution * 4
            /\ \A i \in 1..BufLen(output_image_ptr) :
                  output_image_ptr.data[i] # Indeterminate)
    /\ [][pc = "gui" => UNCHANGED <<output_image_ptr, resolution>>]_vars
    /\ [](output_image_tex.id # 0 => output_image_tex.data = output_image_ptr.data)

\* The display step has uploaded a frame.
C4_Witness ==
    /\ pc = "swap"
    /\ output_image_tex.id = 1
    /\ resolution >= 2

\* C5: on a buffer of the resolution's size, a step of a pass changes
\* nothing but the buffer's elements; a pass that follows a completed pass
\* at the same resolution leaves every element as it was; and the buffer a
\* completed pass leaves is the same whatever buffer and history it started
\* from.
C5_Idempotent ==
    /\ [][(pc = "draw" /\ BufLen(output_image_ptr) = resolution * resolution * 4) =>
            /\ UNCHANGED <<resolution, frame_seconds, cameraVars, output_image_tex, oob>>
            /\ output_image_ptr'.alloc = output_image_ptr.alloc
            /\ BufLen(output_image_ptr') = BufLen(output_image_ptr)
            /\ (rendered = resolution => output_image_ptr' = output_image_ptr)]_vars
    /\ []((rendered = resolution /\ pc # "draw"
             /\ BufLen(output_image_ptr) = resolution * resolution * 4) =>
            output_image_ptr.data =
               SequentialPass(NewFloats(resolution * resolution * 4).data, 0, resolution,
                              pixel00_loc, pixel_delta_u, pixel_delta_v))

\* A second pass at the same resolution is under way.
C5_Witness ==
    /\ pc = "draw"
    /\ rendered = resolution
    /\ resolution >= 2
    /\ BufLen(output_image_ptr) = resolution * resolution * 4
    /\ PixelsDone >= 2

\* Every worker has run the loop body for all pixels of its rows.
ParDone ==
    \A w \in Workers :
       par_next[w] = Len(RowsFrom(par_owner, w, 0, resolution)) * resolution

\* C6: with the rows divided among workers in any way and their loop bodies
\* interleaved in any way, an element is written only by the worker that owns
\* its pixel's row, no element by two workers, and the finished buffer is the
\* one the sequential pass produces.
C6_RowsIndependent ==
    /\ \A i \in DOMAIN par_writers :
          /\ Cardinality(par_writers[i]) <= 1
          /\ output_image_ptr.data[i + 1] # Indeterminate =>
                par_writers[i] = {par_owner[(i \div 4) \div resolution]}
    /\ ParDone =>
          output_image_ptr.data =
             SequentialPass(NewFloats(resolution * resolution * 4).data, 0, resolution,
                            pixel00_loc, pixel_delta_u, pixel_delta_v)

\* Two workers, each owning rows, have finished.
C6_Witness ==
    /\ pc = "parallel"
    /\ ParDone
    /\ resolution >= 2
    /\ \A w \in Workers : \E y \in DOMAIN par_owner : par_owner[y] = w

(***************************************************************************)
(* Properties of the intersector and the shader                            *)
(***************************************************************************)
ZeroVec == vec3(Num(0), Num(0), Num(0))

\* |r.at(t) - center|^2 = radius^2
OnSphere(rt, s, r, t) ==
    LET d == VSub(at(rt, t), s) IN dot(d, d) = NumMul(r, r)

\* The quadratic in its textbook form A*t^2 + B*t + C = 0, B = 2*d.(o - s).
QuadA(rt) == dot(rt.m_dir, rt.m_dir)

QuadB(rt, s) == NumMul(Num(2), dot(rt.m_dir, VSub(rt.m_orig, s)))

QuadC(rt, s, r) ==
    NumSub(dot(VSub(rt.m_orig, s), VSub(rt.m_orig, s)), NumMul(r, r))

Discriminant(rt, s, r) ==
    NumSub(NumMul(QuadB(rt, s), QuadB(rt, s)),
           NumMul(Num(4), NumMul(QuadA(rt), QuadC(rt, s, r))))

\* The real solutions t of |r.at(t) - center|^2 = radius^2, direction # 0.
Solutions(rt, s, r) ==
    IF NumLT(Discriminant(rt, s, r), Num(0)) THEN {}
    ELSE LET root == NumSqrt(Discriminant(rt, s, r))
             den  == NumMul(Num(2), QuadA(rt))
         IN  {t \in {NumDiv(NumSub(NumNeg(QuadB(rt, s)), root), den),
                     NumDiv(NumAdd(NumNeg(QuadB(rt, s)), root), den)} :
                 OnSphere(rt, s, r, t)}

NonNegative(S) == {t \in S : NumLE(Num(0), t)}

IsLeast(t, S) == t \in S /\ \A u \in S : NumLE(t, u)

\* C7 as claimed: for a ray of non-zero direction, HitSphere returns the
\* least non-negative solution whenever one exists, and a negative (no-hit)
\* value only when none exists.
C7_LeastNonNegative ==
    (fn_pc # "input" /\ fn_ray.m_dir # ZeroVec) =>
       LET S == NonNegative(Solutions(fn_ray, SceneCenter, fn_radius))
       IN  /\ S # {} => IsLeast(fn_t, S)
           /\ NumLT(fn_t, Num(0)) => S = {}

\* C7 as the code has it: for a ray of non-zero direction, HitSphere returns
\* -1 when the quadratic has no real root, and otherwise the least of
\* all real solutions; that is the least non-negative solution whenever it is
\* itself non-negative, and whenever the origin is strictly outside the sphere
\* and some solution is non-negative.
C7_NearRoot ==
    (fn_pc # "input" /\ fn_ray.m_dir # ZeroVec) =>
       LET S == Solutions(fn_ray, SceneCenter, fn_radius)
       IN  /\ S = {} => fn_t = Num(-1)
           /\ S # {} => IsLeast(fn_t, S)
           /\ S # {} /\ NumLE(Num(0), fn_t) => IsLeast(fn_t, NonNegative(S))
           /\ (NumGT(QuadC(fn_ray, SceneCenter, fn_radius), Num(0))
                 /\ NonNegative(S) # {}) => IsLeast(fn_t, NonNegative(S))

\* The origin is strictly inside the sphere: the near root is negative, the
\* far root positive, and HitSphere has returned the near one.
C7_Witness ==
    /\ fn_pc = "intersected"
    /\ fn_ray.m_dir # ZeroVec
    /\ NumLT(QuadC(fn_ray, SceneCenter, fn_radius), Num(0))
    /\ NumLT(fn_t, Num(0))
    /\ NonNegative(Solutions(fn_ray, SceneCenter, fn_radius)) # {}

\* The line of the ray touches the sphere: its distance from the centre is
\* the radius, |d|^2 |s - o|^2 - (d.(s - o))^2 = r^2 |d|^2.
Tangent(rt, s, r) ==
    LET d == rt.m_dir
        w == VSub(s, rt.m_orig)
    IN  /\ d # ZeroVec
        /\ NumSub(NumMul(dot(d, d), dot(w, w)), NumMul(dot(d, w), dot(d, w)))
              = NumMul(NumMul(r, r), dot(d, d))

\* The touching point lies ahead of the origin.
Ahead(rt, s) == NumGT(dot(rt.m_dir, VSub(s, rt.m_orig)), Num(0))

\* b / (2a) with b = 2 * dot(direction, center - origin).
TangentRoot(rt, s) ==
    NumDiv(NumMul(Num(2), dot(rt.m_dir, VSub(s, rt.m_orig))),
           NumMul(Num(2), dot(rt.m_dir, rt.m_dir)))

\* 0.5 * (normal + 1) for the normal at r.at(t).
NormalColor(rt, t) ==
    LET n == VSub(at(rt, t), SceneCenter)
        u == VDiv(n, NumSqrt(dot(n, n)))
    IN  vec3(NumMul(Rat(1, 2), NumAdd(u.x, Num(1))),
             NumMul(Rat(1, 2), NumAdd(u.y, Num(1))),
             NumMul(Rat(1, 2), NumAdd(u.z, Num(1))))

\* (1 - a) * (1, 1, 1) + a * (0.5, 0.7, 1.0), a = 0.5 * (unit_direction.y + 1).
SkyColor(rt) ==
    LET len == NumSqrt(dot(rt.m_dir, rt.m_dir))
        a   == NumMul(Rat(1, 2), NumAdd(NumDiv(rt.m_dir.y, len), Num(1)))
        w   == NumSub(Num(1), a)
    IN  vec3(NumAdd(w, NumMul(a, Rat(1, 2))),
             NumAdd(w, NumMul(a, Rat(7, 10))),
             NumAdd(w, a))

\* C8: for a ray tangent to the sphere ahead of its origin, HitSphere returns
\* the single root b/(2a), which is positive and so not the sentinel, and
\* RayColor returns the normal colour at that root, not the sky.
C8_TangentHit ==
    (fn_pc # "input" /\ Tangent(fn_ray, SceneCenter, fn_radius)
       /\ Ahead(fn_ray, SceneCenter)) =>
       /\ fn_t = TangentRoot(fn_ray, SceneCenter)
       /\ NumGT(fn_t, Num(0))
       /\ OnSphere(fn_ray, SceneCenter, fn_radius, fn_t)
       /\ (fn_pc = "shaded" /\ fn_radius = SceneRadius) =>
             /\ fn_color = NormalColor(fn_ray, TangentRoot(fn_ray, SceneCenter))
             /\ fn_color # SkyColor(fn_ray)

\* A tangent ray of the scene's sphere has been shaded.
C8_Witness ==
    /\ fn_pc = "shaded"
    /\ fn_radius = SceneRadius
    /\ Tangent(fn_ray, SceneCenter, fn_radius)
    /\ Ahead(fn_ray, SceneCenter)

IsFiniteVec(v) == ~IsNaN(v.x) /\ ~IsNaN(v.y) /\ ~IsNaN(v.z)

\* C9: for a ray of zero direction no quotient by zero is formed: HitSphere
\* returns a number (a miss), and RayColor a colour of numbers.
C9_DegenerateRayHandled ==
    (fn_pc # "input" /\ fn_ray.m_dir = ZeroVec) =>
       /\ ~IsNaN(fn_t)
       /\ fn_pc = "shaded" => IsFiniteVec(fn_color)

\* C10: for a ray of non-zero direction, RayColor returns the normal colour
\* at r.at(t) when the t of HitSphere is positive, and the sky gradient for
\* every other t: the sentinel, a root equal to 0, a negative near root.
C10_HitIffPositive ==
    (fn_pc = "shaded" /\ fn_ray.m_dir # ZeroVec) =>
       LET t == HitSphere(SceneCenter, SceneRadius, fn_ray)
       IN  IF NumGT(t, Num(0))
           THEN fn_color = NormalColor(fn_ray, t)
           ELSE fn_color = SkyColor(fn_ray)

\* A ray from a point of the sphere, whose near root is 0, shaded as sky.
C10_Witness ==
    /\ fn_pc = "shaded"
    /\ fn_ray.m_dir # ZeroVec
    /\ HitSphere(SceneCenter, SceneRadius, fn_ray) = Num(0)
    /\ fn_color = SkyColor(fn_ray)

====
